---------------------------- MODULE Spec2Model ----------------------------
(***************************************************************************)
(* FileContentStorage (examples/implementation/FileContentStorage.ts):     *)
(* content objects persisted in a directory tree.  The state is the file   *)
(* system below "/" and, for every asynchronous task, the call it is       *)
(* executing and the await it is suspended at.  Every action is the code   *)
(* of one method between two awaits.                                       *)
(***************************************************************************)
EXTENDS Integers, Sequences, FiniteSets, TLC

(***************************************************************************)
(* Bounds of the model.                                                    *)
(***************************************************************************)
\* the id space getRandomInt draws from: stands for 2 ** 32 of line 136
MaxId == 2
\* Math.random() is k / RandDen for some k in 0 .. RandDen - 1
RandDen == 4
\* number of concurrently running asynchronous tasks
NumTasks == 2
\* number of calls started in one behaviour of the concurrent tasks
MaxCalls == 2
\* number of calls started in one behaviour of a single task
MaxSeqCalls == 3

\* "try 5x and give up then"
MaxAttempts == 5

Tasks == 1 .. NumTasks
Ids == 1 .. MaxId

(***************************************************************************)
(* Names.  A path segment is a sequence of characters (a run of letters is *)
(* kept as one token, "." is always a character of its own), and a path is *)
(* a sequence of segments below "/".                                       *)
(***************************************************************************)
SegContent == <<"content">>
SegContentJson == <<"content", ".", "json">>
SegH5pJson == <<"h5p", ".", "json">>
SegUp == <<".", ".">>
SegDot == <<".">>
SegImagePng == <<"a", ".", "png">>
SegReadme == <<"README">>
SegImages == <<"images">>
SegEtc == <<"etc">>
SegPasswd == <<"passwd">>

\* the constructor's contentPath: /data
contentPath == << <<"data">> >>

Digits == <<"0", "1", "2", "3", "4", "5", "6", "7", "8", "9">>

\* Number.prototype.toString(): the decimal digits of n
RECURSIVE toString(_)
toString(n) ==
    IF n < 10 THEN <<Digits[n + 1]>>
    ELSE toString(n \div 10) \o <<Digits[(n % 10) + 1]>>

\* path.normalize on the segments of an absolute path: "." and empty
\* segments are dropped, ".." removes the segment before it (and is dropped
\* at the root)
RECURSIVE normalize(_, _)
normalize(done, rest) ==
    IF rest = <<>> THEN done
    ELSE LET s == Head(rest) IN
         IF s = SegDot \/ s = <<>> THEN normalize(done, Tail(rest))
         ELSE IF s = SegUp
              THEN normalize(IF done = <<>> THEN <<>>
                             ELSE SubSeq(done, 1, Len(done) - 1), Tail(rest))
              ELSE normalize(Append(done, s), Tail(rest))

\* path.join(base, ...segments) for an absolute base
join(base, segs) == normalize(<<>>, base \o segs)

\* path.dirname of an absolute, normalized path
dirname(p) == IF p = <<>> THEN <<>> ELSE SubSeq(p, 1, Len(p) - 1)

IsPrefix(p, q) == Len(p) <= Len(q) /\ SubSeq(q, 1, Len(p)) = p

\* path.relative(from, to) for a path to below from
relative(from, to) == SubSeq(to, Len(from) + 1, Len(to))

\* path.join(this.contentPath, id.toString())
IdDir(id) == join(contentPath, <<toString(id)>>)

(***************************************************************************)
(* The file system: a function from the paths that exist to their nodes.   *)
(***************************************************************************)
DirNode == [dir |-> TRUE, data |-> <<>>]
FileNode(bytes) == [dir |-> FALSE, data |-> bytes]

\* fsExtra.pathExists
pathExists(f, p) == p \in DOMAIN f

\* fsExtra.emptyDir in the place of fsExtra.ensureDir: the directory is made
\* when missing and emptied when present
emptyDir(f, p) ==
    LET kept == {r \in DOMAIN f : ~IsPrefix(p, r) \/ r = p}
        new == {SubSeq(p, 1, k) : k \in 0 .. Len(p)} \ kept
    IN  [q \in kept \cup new |-> IF q \in kept THEN f[q] ELSE DirNode]

\* fsExtra.ensureDir (mkdir -p): fails when a file is in the way
EnsureDirPossible(f, p) ==
    \A k \in 0 .. Len(p) :
        LET q == SubSeq(p, 1, k) IN q \in DOMAIN f => f[q].dir

ensureDir(f, p) ==
    LET new == {SubSeq(p, 1, k) : k \in 0 .. Len(p)} \ DOMAIN f
    IN  [q \in DOMAIN f \cup new |-> IF q \in DOMAIN f THEN f[q] ELSE DirNode]

\* opening a file for writing: its directory exists and the path is no directory
WritePossible(f, p) ==
    /\ p # <<>>
    /\ dirname(p) \in DOMAIN f
    /\ f[dirname(p)].dir
    /\ (p \in DOMAIN f => ~f[p].dir)

\* the file at p holds exactly bytes
writeFile(f, p, bytes) ==
    [q \in DOMAIN f \cup {p} |-> IF q = p THEN FileNode(bytes) ELSE f[q]]

\* fs.rmdir in the place of fsExtra.remove: only an empty directory goes
removeIfEmpty(f, p) ==
    IF \E r \in DOMAIN f : IsPrefix(p, r) /\ r # p THEN f
    ELSE [q \in DOMAIN f \ {p} |-> f[q]]

\* unlinking the files below p and leaving the directories
removeFiles(f, p) ==
    [q \in {r \in DOMAIN f : ~IsPrefix(p, r) \/ f[r].dir} |-> f[q]]

\* fsExtra.remove: p and everything below it
remove(f, p) ==
    [q \in {r \in DOMAIN f : ~IsPrefix(p, r)} |-> f[q]]

\* JSON.stringify of an opaque document, as fsExtra.writeJSON writes it
stringify(doc) == <<"{", doc, "}", "\n">>


(***************************************************************************)
(* Paths the methods compute.                                              *)
(***************************************************************************)
\* createContent: path.join(contentPath, id.toString(), 'content')
ContentDir(id) == join(contentPath, <<toString(id), SegContent>>)

\* createContent: path.join(contentPath, id.toString(), 'h5p.json')
MetadataPath(id) == join(contentPath, <<toString(id), SegH5pJson>>)

\* createContent: path.join(contentPath, id.toString(), 'content', 'content.json')
ContentJsonPath(id) ==
    join(contentPath, <<toString(id), SegContent, SegContentJson>>)

\* addContentFile writing below the id directory, without 'content'
AddFullPathNoContent(id, filename) ==
    join(contentPath, <<toString(id)>> \o filename)

\* addContentFile: path.join(contentPath, id.toString(), 'content', filename)
AddFullPath(id, filename) ==
    join(contentPath, <<toString(id), SegContent>> \o filename)

\* getContentFileStream: path.join(contentPath, id.toString(), filename)
StreamPath(id, filename) == join(contentPath, <<toString(id)>> \o filename)

(***************************************************************************)
(* Pure parts of the methods.                                              *)
(***************************************************************************)
\* getRandomInt without "+ finalMin"
getRandomIntFromZero(min, max, k) == (k * (max - min + 1)) \div RandDen

\* getRandomInt(min, max) with Math.random() = k / RandDen; min and max are
\* integers, so Math.ceil(min) = min and Math.floor(max) = max
getRandomInt(min, max, k) == ((k * (max - min + 1)) \div RandDen) + min

\* the do-while condition with "<=" in the place of "<"
TryAgainInclusive(exists, counter) == exists /\ counter <= MaxAttempts

\* createContentId: the do-while condition "exists && counter < 5"
TryAgain(exists, counter) == exists /\ counter < MaxAttempts

\* addContentFile checking the content directory in the place of the id's
AddRootMissing(f, id) == ~pathExists(f, contentPath)

\* addContentFile: the guard of its throw
AddTargetMissing(f, id) == ~pathExists(f, IdDir(id))

\* deleteContent checking the content directory in the place of the id's
DeleteRootMissing(f, id) == ~pathExists(f, contentPath)

\* deleteContent: the guard of its throw
DeleteTargetMissing(f, id) == ~pathExists(f, IdDir(id))

\* contentExists that leaves the id out of the path it checks
contentExistsOfRoot(f, id) == pathExists(f, contentPath)

\* contentExists
contentExistsResult(f, id) == pathExists(f, IdDir(id))

\* minimatch of one segment against "*.*" (dot: false): a "." somewhere, none
\* at the start
MatchStarDotStar(seg) ==
    /\ seg # <<>>
    /\ seg[1] # "."
    /\ \E i \in 1 .. Len(seg) : seg[i] = "."

\* minimatch of the directories between the file area and the file against
\* "**" (dot: false): none starts with "."
MatchGlobStar(dirs) == \A i \in 1 .. Len(dirs) : dirs[i] # <<>> /\ dirs[i][1] # "."

\* getContentFiles without the ignore option
getContentFilesNoIgnore(f, id) ==
    LET dir == ContentDir(id)
        hits == {p \in DOMAIN f :
                    /\ IsPrefix(dir, p) /\ Len(p) > Len(dir)
                    /\ ~f[p].dir
                    /\ MatchStarDotStar(p[Len(p)])
                    /\ MatchGlobStar(SubSeq(p, Len(dir) + 1, Len(p) - 1))}
    IN  {relative(dir, p) : p \in hits}

\* getContentFiles: globPromise(<content dir>/**/*.*, {ignore: [<content
\* dir>/content.json], nodir: true}), each made relative to the content dir
getContentFilesResult(f, id) ==
    LET dir == ContentDir(id)
        hits == {p \in DOMAIN f :
                    /\ IsPrefix(dir, p) /\ Len(p) > Len(dir)
                    /\ ~f[p].dir
                    /\ MatchStarDotStar(p[Len(p)])
                    /\ MatchGlobStar(SubSeq(p, Len(dir) + 1, Len(p) - 1))
                    /\ p # join(dir, <<SegContentJson>>)}
    IN  {relative(dir, p) : p \in hits}

\* getContentFileStream: what reading the returned stream gives
StreamReadable(f, id, filename) ==
    /\ StreamPath(id, filename) \in DOMAIN f
    /\ ~f[StreamPath(id, filename)].dir

StreamBytes(f, id, filename) == f[StreamPath(id, filename)].data

\* getUserPermissions
\* a reader's permissions only: what getUserPermissions would return if it
\* told users apart
ReadPermissions == {"Download", "View"}

AllPermissions == {"Delete", "Download", "Edit", "Embed", "View"}

(***************************************************************************)
(* Inputs.                                                                 *)
(***************************************************************************)
\* id?: ContentId left out by the caller
Undefined == 0

\* what the fields of call[t] stand for: pc is the await the task is suspended
\* at; err is the error thrown ("none": the call returned), named as the
\* specification names the code's Error messages; cause is the message of the
\* error the catch block of createContent caught (the step that failed);
\* live says that the record a successful createContent made has not been
\* removed since; existed says that the id handed to createContent had a
\* directory when the call was made; user is the user getUserPermissions was
\* called for

\* (metadata, content) documents, opaque to the store
Documents == {<<"m1", "c1">>, <<"m2", "c2">>}

\* (filename, bytes of the stream) handed to addContentFile; the last
\* filename leads from the file area of an id to the metadata of id 1
AddInputs ==
    {<<<<SegImagePng>>, <<"x">>>>,
     <<<<SegImagePng>>, <<"y", "z">>>>,
     <<<<SegReadme>>, <<"x">>>>,
     <<<<SegImages, SegImagePng>>, <<"y", "z">>>>,
     <<<<SegUp, SegUp, toString(1), SegH5pJson>>, <<"x">>>>}

\* the users that call getUserPermissions
Users == {"alice", "bob"}

\* filenames handed to getContentFileStream
StreamNames ==
    {<<SegImagePng>>, <<SegContent, SegImagePng>>,
     <<SegUp, SegUp, SegEtc, SegPasswd>>}

(***************************************************************************)
(* State.                                                                  *)
(***************************************************************************)
VARIABLES
    fs,      \* the file system
    call,    \* call[t]: the call task t executes, and where it stands
    calls    \* number of calls that may still be started

vars == <<fs, call, calls>>

NoCall ==
    [op |-> "none", pc |-> "idle", id |-> Undefined, supplied |-> FALSE,
     filename |-> <<>>, data |-> <<>>, metadata |-> "", content |-> "",
     counter |-> 0, err |-> "none", cause |-> "none", retBool |-> FALSE,
     retFiles |-> {},
     retData |-> <<>>, retPerms |-> {}, live |-> FALSE, user |-> "none",
     existed |-> FALSE]

\* the tree a successful createContent leaves for id
Created(f, id, md, ct) ==
    writeFile(
        writeFile(ensureDir(ensureDir(f, IdDir(id)), ContentDir(id)),
                  MetadataPath(id), stringify(md)),
        ContentJsonPath(id), stringify(ct))

RECURSIVE Populate(_, _, _)
Populate(f, S, n) ==
    IF n = 0 THEN f
    ELSE Populate(IF n \in S THEN Created(f, n, "m1", "c1") ELSE f, S, n - 1)

\* the machine outside the store: /etc/passwd, and the empty content directory
EmptyStore ==
    writeFile(ensureDir(ensureDir(<<>> :> DirNode, <<SegEtc>>), contentPath),
              <<SegEtc, SegPasswd>>, <<"root">>)

\* the store is constructed over a directory that holds the content created
\* by earlier runs
Init ==
    /\ fs \in {Populate(EmptyStore, S, MaxId) : S \in SUBSET Ids}
    /\ call = [t \in Tasks |-> NoCall]
    /\ calls = MaxCalls

SeqInit ==
    /\ fs \in {Populate(EmptyStore, S, MaxId) : S \in SUBSET Ids}
    /\ call = [t \in Tasks |-> NoCall]
    /\ calls = MaxSeqCalls

Free(t) == call[t].pc \in {"idle", "done"} /\ calls > 0

\* the records created as id are gone
Forget(c, id) ==
    [u \in Tasks |->
        IF c[u].op = "createContent" /\ c[u].id = id
        THEN [c[u] EXCEPT !.live = FALSE] ELSE c[u]]

(***************************************************************************)
(* createContent(metadata, content, user, id?)                             *)
(***************************************************************************)
\* the call: with no id it enters createContentId, else the try block
CreateContent(t, doc, id) ==
    /\ Free(t)
    /\ calls' = calls - 1
    /\ call' = [call EXCEPT ![t] =
          [NoCall EXCEPT !.op = "createContent",
                         !.pc = IF id = Undefined THEN "createContentId"
                                ELSE "ensureIdDir",
                         !.id = id, !.supplied = (id # Undefined),
                         !.existed = (id # Undefined
                                      /\ pathExists(fs, IdDir(id))),
                         !.metadata = doc[1], !.content = doc[2]]]
    /\ UNCHANGED fs

\* createContentId: one pass of the do-while loop, and what follows the loop
\* when it is left
CreateContentId(t, k) ==
    /\ call[t].pc = "createContentId"
    /\ LET id == getRandomInt(1, MaxId, k)
           counter == call[t].counter + 1
           exists == pathExists(fs, IdDir(id))
       IN  call' = [call EXCEPT ![t] =
              IF TryAgain(exists, counter)
              THEN [@ EXCEPT !.counter = counter, !.id = id]
              ELSE IF exists
              THEN [@ EXCEPT !.counter = counter, !.id = id, !.pc = "done",
                             !.err = "IdExhaustionError"]
              ELSE [@ EXCEPT !.counter = counter, !.id = id,
                             !.pc = "ensureIdDir"]]
    /\ UNCHANGED <<fs, calls>>

\* await fsExtra.ensureDir(<id dir>)
EnsureIdDir(t) ==
    /\ call[t].pc = "ensureIdDir"
    /\ \/ /\ EnsureDirPossible(fs, IdDir(call[t].id))
          /\ fs' = ensureDir(fs, IdDir(call[t].id))
          /\ call' = [call EXCEPT ![t].pc = "ensureContentDir"]
       \/ /\ fs' = fs
          /\ call' = [call EXCEPT ![t].pc = "catch",
                                  ![t].cause = "ensureIdDir"]
    /\ UNCHANGED calls

\* await fsExtra.ensureDir(<id dir>/content)
EnsureContentDir(t) ==
    /\ call[t].pc = "ensureContentDir"
    /\ \/ /\ EnsureDirPossible(fs, ContentDir(call[t].id))
          /\ fs' = ensureDir(fs, ContentDir(call[t].id))
          /\ call' = [call EXCEPT ![t].pc = "writeMetadata"]
       \/ /\ fs' = fs
          /\ call' = [call EXCEPT ![t].pc = "catch",
                                  ![t].cause = "ensureContentDir"]
    /\ UNCHANGED calls

\* await fsExtra.writeJSON(<id dir>/h5p.json, metadata)
WriteMetadata(t) ==
    /\ call[t].pc = "writeMetadata"
    /\ LET p == MetadataPath(call[t].id) IN
       \/ /\ WritePossible(fs, p)
          /\ fs' = writeFile(fs, p, stringify(call[t].metadata))
          /\ call' = [call EXCEPT ![t].pc = "writeContent"]
       \/ /\ fs' = fs
          /\ call' = [call EXCEPT ![t].pc = "catch",
                                  ![t].cause = "writeMetadata"]
       \/ /\ WritePossible(fs, p)
          /\ fs' = writeFile(fs, p, <<>>)
          /\ call' = [call EXCEPT ![t].pc = "catch",
                                  ![t].cause = "writeMetadata"]
    /\ UNCHANGED calls

\* await fsExtra.writeJSON(<id dir>/content/content.json, content); return id
WriteContent(t) ==
    /\ call[t].pc = "writeContent"
    /\ LET p == ContentJsonPath(call[t].id) IN
       \/ /\ WritePossible(fs, p)
          /\ fs' = writeFile(fs, p, stringify(call[t].content))
          /\ call' = [call EXCEPT ![t].pc = "done", ![t].live = TRUE]
       \/ /\ fs' = fs
          /\ call' = [call EXCEPT ![t].pc = "catch",
                                  ![t].cause = "writeContent"]
       \/ /\ WritePossible(fs, p)
          /\ fs' = writeFile(fs, p, <<>>)
          /\ call' = [call EXCEPT ![t].pc = "catch",
                                  ![t].cause = "writeContent"]
    /\ UNCHANGED calls

\* the catch block: what the call throws once fsExtra.remove has succeeded
\* (removed) or failed
CatchThrows(removed) ==
    IF removed THEN "ContentCreationError" ELSE "StorageIOError"

\* catch (error) { await fsExtra.remove(<id dir>); throw new Error(...) }
CreateCatch(t) ==
    /\ call[t].pc = "catch"
    /\ \/ /\ fs' = remove(fs, IdDir(call[t].id))
          /\ call' = [Forget(call, call[t].id) EXCEPT
                         ![t].pc = "done", ![t].err = CatchThrows(TRUE)]
       \/ /\ fs' = fs
          /\ call' = [call EXCEPT
                         ![t].pc = "done", ![t].err = CatchThrows(FALSE)]
    /\ UNCHANGED calls

(***************************************************************************)
(* deleteContent(id, user)                                                 *)
(***************************************************************************)
\* the call and its await fsExtra.pathExists(<id dir>)
DeleteContent(t, id) ==
    /\ Free(t)
    /\ calls' = calls - 1
    /\ call' = [call EXCEPT ![t] =
          IF DeleteTargetMissing(fs, id)
          THEN [NoCall EXCEPT !.op = "deleteContent", !.id = id,
                              !.pc = "done", !.err = "NotFoundError"]
          ELSE [NoCall EXCEPT !.op = "deleteContent", !.id = id,
                              !.pc = "remove"]]
    /\ UNCHANGED fs

\* await fsExtra.remove(<id dir>)
DeleteRemove(t) ==
    /\ call[t].pc = "remove"
    /\ \/ /\ fs' = remove(fs, IdDir(call[t].id))
          /\ call' = [Forget(call, call[t].id) EXCEPT ![t].pc = "done"]
       \/ /\ fs' = fs
          /\ call' = [call EXCEPT ![t].pc = "done",
                                  ![t].err = "StorageIOError"]
    /\ UNCHANGED calls

(***************************************************************************)
(* addContentFile(id, filename, stream, user)                              *)
(***************************************************************************)
\* the call and its await fsExtra.pathExists(<id dir>)
AddContentFile(t, id, filename, bytes) ==
    /\ Free(t)
    /\ calls' = calls - 1
    /\ call' = [call EXCEPT ![t] =
          IF AddTargetMissing(fs, id)
          THEN [NoCall EXCEPT !.op = "addContentFile", !.id = id,
                              !.filename = filename, !.data = bytes,
                              !.pc = "done", !.err = "NotFoundError"]
          ELSE [NoCall EXCEPT !.op = "addContentFile", !.id = id,
                              !.filename = filename, !.data = bytes,
                              !.pc = "ensureFileDir"]]
    /\ UNCHANGED fs

\* await fsExtra.ensureDir(path.dirname(fullPath))
AddEnsureDir(t) ==
    /\ call[t].pc = "ensureFileDir"
    /\ LET d == dirname(AddFullPath(call[t].id, call[t].filename)) IN
       \/ /\ EnsureDirPossible(fs, d)
          /\ fs' = ensureDir(fs, d)
          /\ call' = [call EXCEPT ![t].pc = "pipe"]
       \/ /\ fs' = fs
          /\ call' = [call EXCEPT ![t].pc = "done",
                                  ![t].err = "StorageIOError"]
    /\ UNCHANGED calls

\* fsExtra.createWriteStream(fullPath); await promisepipe(stream, writeStream)
AddPipe(t) ==
    /\ call[t].pc = "pipe"
    /\ LET p == AddFullPath(call[t].id, call[t].filename) IN
       \/ /\ WritePossible(fs, p)
          /\ fs' = writeFile(fs, p, call[t].data)
          /\ call' = [call EXCEPT ![t].pc = "done"]
       \/ /\ fs' = fs
          /\ call' = [call EXCEPT ![t].pc = "done",
                                  ![t].err = "StorageIOError"]
       \/ /\ WritePossible(fs, p)
          /\ fs' = writeFile(fs, p, <<>>)
          /\ call' = [call EXCEPT ![t].pc = "done",
                                  ![t].err = "StorageIOError"]
    /\ UNCHANGED calls

(***************************************************************************)
(* The queries.                                                            *)
(***************************************************************************)
ContentExists(t, id) ==
    /\ Free(t)
    /\ calls' = calls - 1
    /\ call' = [call EXCEPT ![t] =
          [NoCall EXCEPT !.op = "contentExists", !.id = id, !.pc = "done",
                         !.retBool = contentExistsResult(fs, id)]]
    /\ UNCHANGED fs

GetContentFiles(t, id) ==
    /\ Free(t)
    /\ calls' = calls - 1
    /\ call' = [call EXCEPT ![t] =
          [NoCall EXCEPT !.op = "getContentFiles", !.id = id, !.pc = "done",
                         !.retFiles = getContentFilesResult(fs, id)]]
    /\ UNCHANGED fs

\* the stream is returned at once; err is what reading it signals
GetContentFileStream(t, id, filename) ==
    /\ Free(t)
    /\ calls' = calls - 1
    /\ call' = [call EXCEPT ![t] =
          IF StreamReadable(fs, id, filename)
          THEN [NoCall EXCEPT !.op = "getContentFileStream", !.id = id,
                              !.filename = filename, !.pc = "done",
                              !.retData = StreamBytes(fs, id, filename)]
          ELSE [NoCall EXCEPT !.op = "getContentFileStream", !.id = id,
                              !.filename = filename, !.pc = "done",
                              !.err = "NotFoundError"]]
    /\ UNCHANGED fs

GetUserPermissions(t, id, user) ==
    /\ Free(t)
    /\ calls' = calls - 1
    /\ call' = [call EXCEPT ![t] =
          [NoCall EXCEPT !.op = "getUserPermissions", !.id = id,
                         !.user = user,
                         !.pc = "done", !.retPerms = AllPermissions]]
    /\ UNCHANGED fs

(***************************************************************************)
(* The specification: any task may call any method with any input, and the *)
(* awaited file system operations of the tasks interleave.                 *)
(***************************************************************************)
Step(t) ==
        \/ \E doc \in Documents, id \in Ids \cup {Undefined} :
               CreateContent(t, doc, id)
        \/ \E k \in 0 .. RandDen - 1 : CreateContentId(t, k)
        \/ EnsureIdDir(t)
        \/ EnsureContentDir(t)
        \/ WriteMetadata(t)
        \/ WriteContent(t)
        \/ CreateCatch(t)
        \/ \E id \in Ids : DeleteContent(t, id)
        \/ DeleteRemove(t)
        \/ \E id \in Ids, in \in AddInputs :
               AddContentFile(t, id, in[1], in[2])
        \/ AddEnsureDir(t)
        \/ AddPipe(t)
        \/ \E id \in Ids : ContentExists(t, id)
        \/ \E id \in Ids : GetContentFiles(t, id)
        \/ \E id \in Ids, filename \in StreamNames :
               GetContentFileStream(t, id, filename)
        \/ \E id \in Ids, user \in Users : GetUserPermissions(t, id, user)

\* the tasks run concurrently
Next == \E t \in Tasks : Step(t)

Spec == Init /\ [][Next]_vars

\* one task calls the methods one after the other
SeqNext == Step(1)

SeqSpec == SeqInit /\ [][SeqNext]_vars

\* task t executes a call on the id it holds
Busy(c, t) == c[t].pc \notin {"idle", "done", "createContentId"}

\* the callers run at most one call at a time on an id
OnePerId(c) ==
    \A t, u \in Tasks :
        (t # u /\ Busy(c, t) /\ Busy(c, u)) => c[t].id # c[u].id

\* no fsExtra.remove fails, in the catch block of createContent or in
\* deleteContent, and neither does a step of addContentFile
OnlyCreateFaults(c) == \A t \in Tasks : c[t].err # "StorageIOError"

\* the tasks run concurrently on different ids, with file system faults only
\* in the try block of createContent
Disciplined == OnePerId(call') /\ OnlyCreateFaults(call')

SerialNext ==
    \E t \in Tasks :
        \/ (\E doc \in Documents, id \in Ids \cup {Undefined} :
                CreateContent(t, doc, id)) /\ Disciplined
        \/ (\E k \in 0 .. RandDen - 1 : CreateContentId(t, k)) /\ Disciplined
        \/ EnsureIdDir(t) /\ Disciplined
        \/ EnsureContentDir(t) /\ Disciplined
        \/ WriteMetadata(t) /\ Disciplined
        \/ WriteContent(t) /\ Disciplined
        \/ CreateCatch(t) /\ Disciplined
        \/ (\E id \in Ids : DeleteContent(t, id)) /\ Disciplined
        \/ DeleteRemove(t) /\ Disciplined
        \/ (\E id \in Ids, in \in AddInputs :
                AddContentFile(t, id, in[1], in[2])) /\ Disciplined
        \/ AddEnsureDir(t) /\ Disciplined
        \/ AddPipe(t) /\ Disciplined
        \/ (\E id \in Ids : ContentExists(t, id)) /\ Disciplined
        \/ (\E id \in Ids : GetContentFiles(t, id)) /\ Disciplined
        \/ (\E id \in Ids, filename \in StreamNames :
                GetContentFileStream(t, id, filename)) /\ Disciplined
        \/ (\E id \in Ids, user \in Users : GetUserPermissions(t, id, user))
           /\ Disciplined

SerialSpec == Init /\ [][SerialNext]_vars

(***************************************************************************)
(* The claims.                                                             *)
(***************************************************************************)
\* task t leaves the catch block of createContent in this step
LeavesCatch(t) == call[t].pc = "catch" /\ call'[t].pc = "done"

C2_ExistsAfterCreateNotAfterDelete ==
    [][\A t \in Tasks :
          /\ (/\ call[t].pc = "writeContent" /\ call'[t].pc = "done"
              /\ call'[t].err = "none")
             => /\ call'[t].id \in Ids
                /\ contentExistsResult(fs', call'[t].id)
          /\ (/\ call[t].pc = "remove" /\ call'[t].pc = "done"
              /\ call'[t].err = "none")
             => ~contentExistsResult(fs', call'[t].id)]_vars

\* C2 witness: one task's createContent returned id, another task's
\* deleteContent(id) has since succeeded, and contentExists(id) is false.
C2_Witness ==
    \E t, u \in Tasks :
        /\ call[t].op = "createContent" /\ call[t].pc = "done"
        /\ call[t].err = "none" /\ ~call[t].live
        /\ call[u].op = "deleteContent" /\ call[u].pc = "done"
        /\ call[u].err = "none" /\ call[u].id = call[t].id
        /\ ~contentExistsResult(fs, call[t].id)

\* C3: two createContent calls made without an id never both succeed with the
\* same id while the record of the first still exists.
C3_NoSharedId ==
    \A t, u \in Tasks :
        (/\ t # u
         /\ call[t].op = "createContent" /\ call[u].op = "createContent"
         /\ call[t].pc = "done" /\ call[u].pc = "done"
         /\ call[t].err = "none" /\ call[u].err = "none"
         /\ ~call[t].supplied /\ ~call[u].supplied
         /\ call[t].live /\ call[u].live)
        => call[t].id # call[u].id

\* task t starts a call of method op in this step
Calls(t, op) == calls' # calls /\ call'[t] # call[t] /\ call'[t].op = op

\* task t makes one pass of the loop of createContentId in this step
Draws(t) == call[t].pc = "createContentId" /\ call'[t] # call[t]

\* C4: createContentId draws at most 5 candidates, each with one existence
\* check; it fails with IdExhaustionError exactly when the 5th candidate
\* exists as the four before it did, and never after fewer than 5 attempts.
C4_FiveAttempts ==
    /\ [](\A t \in Tasks :
             /\ call[t].counter <= 5
             /\ call[t].pc = "createContentId" => call[t].counter < 5
             /\ call[t].err = "IdExhaustionError" => call[t].counter = 5)
    /\ [][\A t \in Tasks :
             Draws(t) =>
                 LET exists == pathExists(fs, IdDir(call'[t].id)) IN
                 /\ call'[t].counter = call[t].counter + 1
                 /\ fs' = fs
                 /\ (call'[t].pc = "createContentId")
                        <=> (exists /\ call'[t].counter < 5)
                 /\ (call'[t].pc = "done"
                         /\ call'[t].err = "IdExhaustionError")
                        <=> (exists /\ call'[t].counter = 5)
                 /\ (call'[t].pc = "ensureIdDir" /\ call'[t].err = "none")
                        <=> ~exists]_vars

\* C4 witness: createContentId has failed with IdExhaustionError after 5
\* attempts.
C4_Witness ==
    \E t \in Tasks :
        /\ call[t].op = "createContent" /\ call[t].pc = "done"
        /\ call[t].err = "IdExhaustionError" /\ call[t].counter = 5
        /\ pathExists(fs, IdDir(call[t].id))

\* C5: an id createContentId returns lies in the id space (1 .. MaxId, which
\* stands for [1, 2^32]) and had no directory at the call's last existence
\* check; when no other task has called anything, the id returned is not the
\* id of an existing record.
C5_FreshId ==
    /\ [][\A t \in Tasks :
             (Draws(t) /\ call'[t].pc = "ensureIdDir") =>
                 /\ call'[t].id \in 1 .. MaxId
                 /\ ~pathExists(fs, IdDir(call'[t].id))]_vars
    /\ [](\A t \in Tasks :
             (/\ call[t].pc = "ensureIdDir" /\ ~call[t].supplied
              /\ \A u \in Tasks \ {t} : call[u] = NoCall)
             => /\ call[t].id \in 1 .. MaxId
                /\ ~pathExists(fs, IdDir(call[t].id)))

\* C5 witness: createContentId has returned a free id it found on the 5th
\* attempt, while a record of another id exists.
C5_Witness ==
    \E t \in Tasks :
        /\ call[t].op = "createContent" /\ call[t].pc = "ensureIdDir"
        /\ ~call[t].supplied /\ call[t].counter = 5
        /\ ~pathExists(fs, IdDir(call[t].id))
        /\ \E j \in Ids : pathExists(fs, IdDir(j))

\* C6: addContentFile for an id without a directory fails with NotFoundError
\* and leaves the store as it was: the call is over, nothing was created or
\* written.
C6_AddToMissing ==
    [][\A t \in Tasks :
          (Calls(t, "addContentFile") /\ ~pathExists(fs, IdDir(call'[t].id)))
          => /\ call'[t].pc = "done"
             /\ call'[t].err = "NotFoundError"
             /\ fs' = fs]_vars

\* C6 witness: an addContentFile has failed with NotFoundError and the id
\* has no directory.
C6_Witness ==
    \E t \in Tasks :
        /\ call[t].op = "addContentFile" /\ call[t].pc = "done"
        /\ call[t].err = "NotFoundError"
        /\ ~pathExists(fs, IdDir(call[t].id))

\* C7: getContentFileStream with a filename that resolves outside the id's
\* own directory fails (PathTraversalError or NotFoundError) and returns no
\* stream over a file outside it.
C7_NoStreamOutside ==
    \A t \in Tasks :
        (/\ call[t].op = "getContentFileStream" /\ call[t].pc = "done"
         /\ ~IsPrefix(IdDir(call[t].id),
                      normalize(<<>>, contentPath \o <<toString(call[t].id)>>
                                          \o call[t].filename)))
        => /\ call[t].err \in {"PathTraversalError", "NotFoundError"}
           /\ call[t].retData = <<>>

\* C8: no step of an addContentFile on id creates or changes a file or a
\* directory outside the directory of id.
C8_AddStaysInside ==
    [][\A t \in Tasks :
          (call[t].op = "addContentFile" /\ call'[t] # call[t]
               /\ call[t].pc \in {"ensureFileDir", "pipe"})
          => \A p \in DOMAIN fs \cup DOMAIN fs' :
                 ~IsPrefix(IdDir(call[t].id), p)
                 => p \in DOMAIN fs /\ p \in DOMAIN fs' /\ fs'[p] = fs[p]]_vars

\* the bytes a stream over path p yields, <<"no stream">> when there is no
\* file at p
Read(f, p) == IF p \in DOMAIN f /\ ~f[p].dir THEN f[p].data ELSE <<"no stream">>

\* task t's addContentFile succeeds in this step
AddSucceeds(t) ==
    call[t].pc = "pipe" /\ call'[t].pc = "done" /\ call'[t].err = "none"

\* C9 as stated: once addContentFile(id, p, stream) has succeeded with the
\* bytes B, getContentFileStream(id, p, user) yields exactly B.
C9_RoundTripSamePath ==
    [][\A t \in Tasks :
          AddSucceeds(t) =>
              Read(fs', normalize(<<>>, contentPath \o <<toString(call[t].id)>>
                                            \o call[t].filename))
                  = call[t].data]_vars

\* C9 amended: once addContentFile(id, p, stream) has succeeded with the bytes
\* B, getContentFileStream(id, 'content/' + p, user) yields exactly B.
C9_RoundTrip ==
    [][\A t \in Tasks :
          AddSucceeds(t) =>
              Read(fs', normalize(<<>>, contentPath
                                            \o <<toString(call[t].id), SegContent>>
                                            \o call[t].filename))
                  = call[t].data]_vars

\* C9 witness: a getContentFileStream(id, content/a.png) has yielded
\* the bytes that an addContentFile(id, a.png) of the other task wrote.
C9_Witness ==
    \E t, u \in Tasks :
        /\ call[t].op = "addContentFile" /\ call[t].pc = "done"
        /\ call[t].err = "none" /\ call[t].filename = <<SegImagePng>>
        /\ call[u].op = "getContentFileStream" /\ call[u].pc = "done"
        /\ call[u].err = "none" /\ call[u].id = call[t].id
        /\ call[u].filename = <<SegContent>> \o call[t].filename
        /\ call[u].retData = call[t].data

\* the leaf files below the file area of id other than content/content.json,
\* relative to the file area
AttachedFiles(f, id) ==
    LET area == normalize(<<>>, contentPath \o <<toString(id), SegContent>>)
    IN  {SubSeq(p, Len(area) + 1, Len(p)) :
            p \in {q \in DOMAIN f :
                      /\ IsPrefix(area, q) /\ q # area
                      /\ ~f[q].dir
                      /\ q # Append(area, SegContentJson)}}

\* C10: getContentFiles(id) returns exactly the leaf files below the file area
\* of id other than content/content.json, relative to the file area, whatever
\* their names.
C10_ListsEveryFile ==
    [][\A t \in Tasks :
          Calls(t, "getContentFiles") =>
              call'[t].retFiles = AttachedFiles(fs, call'[t].id)]_vars

\* C11: the result of getContentFiles(id) never contains the path of the
\* primary content document, content.json at the root of the file area.
C11_NeverListsContentJson ==
    \A t \in Tasks :
        (call[t].op = "getContentFiles" /\ call[t].pc = "done")
        => <<SegContentJson>> \notin call[t].retFiles

\* C11 witness: a getContentFiles(id) has returned attached files while
\* content/content.json of id exists.
C11_Witness ==
    \E t \in Tasks :
        /\ call[t].op = "getContentFiles" /\ call[t].pc = "done"
        /\ call[t].retFiles # {}
        /\ pathExists(fs, normalize(<<>>, contentPath
                              \o <<toString(call[t].id), SegContent,
                                   SegContentJson>>))

\* C12: deleteContent for an id without a directory fails with NotFoundError
\* and leaves the store as it was: the call is over, no removal was attempted.
C12_DeleteMissing ==
    [][\A t \in Tasks :
          (Calls(t, "deleteContent") /\ ~pathExists(fs, IdDir(call'[t].id)))
          => /\ call'[t].pc = "done"
             /\ call'[t].err = "NotFoundError"
             /\ fs' = fs]_vars

\* C12 witness: a deleteContent has failed with NotFoundError, the id has no
\* directory and the record of another id is in place.
C12_Witness ==
    \E t \in Tasks :
        /\ call[t].op = "deleteContent" /\ call[t].pc = "done"
        /\ call[t].err = "NotFoundError"
        /\ ~pathExists(fs, IdDir(call[t].id))
        /\ \E j \in Ids : pathExists(fs, IdDir(j))

\* task t's deleteContent succeeds in this step
DeleteSucceeds(t) ==
    call[t].pc = "remove" /\ call'[t].pc = "done" /\ call'[t].err = "none"

\* C13: a successful deleteContent(id) leaves nothing at or below <root>/<id>
\* and leaves every path outside it as it was.
C13_FullCleanup ==
    [][\A t \in Tasks :
          DeleteSucceeds(t) =>
              /\ \A p \in DOMAIN fs' : ~IsPrefix(IdDir(call[t].id), p)
              /\ \A p \in DOMAIN fs :
                     ~IsPrefix(IdDir(call[t].id), p)
                     => p \in DOMAIN fs' /\ fs'[p] = fs[p]]_vars

\* C13 witness: a deleteContent(id) has succeeded after an addContentFile of
\* the other task had attached a file to id; nothing is left of id, and the
\* record of another id is in place.
C13_Witness ==
    \E t, u \in Tasks :
        /\ call[t].op = "deleteContent" /\ call[t].pc = "done"
        /\ call[t].err = "none"
        /\ call[u].op = "addContentFile" /\ call[u].pc = "done"
        /\ call[u].err = "none" /\ call[u].id = call[t].id
        /\ call[u].filename = <<SegImages, SegImagePng>>
        /\ \A p \in DOMAIN fs : ~IsPrefix(IdDir(call[t].id), p)
        /\ \E j \in Ids : pathExists(fs, IdDir(j))

\* C14: a createContent whose try block failed signals ContentCreationError,
\* also when the removal of the id directory in the catch block fails.
C14_CreationErrorNotMasked ==
    \A t \in Tasks :
        (/\ call[t].op = "createContent" /\ call[t].pc = "done"
         /\ call[t].cause # "none")
        => call[t].err = "ContentCreationError"

\* a createContent call is at work on id
Creating(id) ==
    \E t \in Tasks :
        /\ call[t].op = "createContent" /\ call[t].id = id
        /\ call[t].pc \in {"ensureIdDir", "ensureContentDir", "writeMetadata",
                           "writeContent", "catch"}

\* there is a file at p
IsFile(f, p) == p \in DOMAIN f /\ ~f[p].dir

\* C15: with one call at a time per id, faults only inside createContent and
\* the removal of the catch block succeeding, whenever no createContent is at
\* work on id, the directory of id exists only if h5p.json and
\* content/content.json exist below it.
C15_AllOrNothing ==
    \A id \in Ids :
        (~Creating(id) /\ pathExists(fs, IdDir(id)))
        => /\ IsFile(fs, normalize(<<>>, contentPath
                                 \o <<toString(id), SegH5pJson>>))
           /\ IsFile(fs, normalize(<<>>, contentPath
                                 \o <<toString(id), SegContent,
                                      SegContentJson>>))

\* the file addContentFile(id, filename) writes
Attached(id, filename) ==
    normalize(<<>>, contentPath \o <<toString(id), SegContent>> \o filename)

\* C16: when a second addContentFile on the same id and the same path succeeds
\* with bytes B2 after a first that wrote B1, the file holds exactly B2,
\* getContentFiles lists the path (once: its result has no duplicates), and
\* the other attached files of the id are as they were.
C16_Overwrite ==
    [][\A t, u \in Tasks :
          (/\ t # u /\ AddSucceeds(t)
           /\ call[u].op = "addContentFile" /\ call[u].pc = "done"
           /\ call[u].err = "none"
           /\ call[u].id = call[t].id /\ call[u].filename = call[t].filename
           /\ Read(fs, Attached(call[t].id, call[t].filename)) = call[u].data)
          => /\ Read(fs', Attached(call[t].id, call[t].filename)) = call[t].data
             /\ call[t].filename \in getContentFilesResult(fs', call[t].id)
             /\ \A p \in DOMAIN fs \cup DOMAIN fs' :
                    p # Attached(call[t].id, call[t].filename)
                    => p \in DOMAIN fs /\ p \in DOMAIN fs' /\ fs'[p] = fs[p]]_vars

\* C17: getUserPermissions returns the full set of permissions (view, edit,
\* delete, download, embed) for every id and every user, whether or not the id
\* has a directory, and leaves the store unchanged.
C17_AllPermissions ==
    [][\A t \in Tasks :
          Calls(t, "getUserPermissions")
          => /\ fs' = fs
             /\ call'[t].pc = "done" /\ call'[t].err = "none"
             /\ call'[t].retPerms
                    = {"View", "Edit", "Delete", "Download", "Embed"}]_vars

\* C17 witness: user bob has asked for the permissions on an id that has no
\* directory, and has got all five.
C17_Witness ==
    \E t \in Tasks :
        /\ call[t].op = "getUserPermissions" /\ call[t].pc = "done"
        /\ call[t].user = "bob"
        /\ ~pathExists(fs, IdDir(call[t].id))
        /\ call[t].retPerms = {"View", "Edit", "Delete", "Download", "Embed"}

\* C18: once an addContentFile(id, ...) and a deleteContent(id) on the same id
\* have both returned, whatever their interleaving, an attached file exists
\* under id only if the metadata and content documents of the record exist
\* too, and a deleteContent that succeeded has left no directory for the id.
C18_AddDeleteRace ==
    \A t, u \in Tasks :
        (/\ call[t].op = "addContentFile" /\ call[t].pc = "done"
         /\ call[u].op = "deleteContent" /\ call[u].pc = "done"
         /\ call[t].id = call[u].id)
        => /\ AttachedFiles(fs, call[t].id) # {}
              => /\ IsFile(fs, normalize(<<>>, contentPath
                        \o <<toString(call[t].id), SegH5pJson>>))
                 /\ IsFile(fs, normalize(<<>>, contentPath
                        \o <<toString(call[t].id), SegContent, SegContentJson>>))
           /\ call[u].err = "none" => ~pathExists(fs, IdDir(call[t].id))

\* task t, a createContent with a supplied id that had a directory at the
\* call and whose write of a document failed, leaves the catch block
OverwriteFails(t) ==
    /\ LeavesCatch(t)
    /\ call[t].supplied /\ call[t].existed
    /\ call[t].cause \in {"writeMetadata", "writeContent"}

\* nothing is left of the directory of id
Gone(f, id) == \A p \in DOMAIN f : ~IsPrefix(IdDir(id), p)

OverwriteStep(t) ==
    /\ call[t].op = "createContent" /\ call[t].supplied /\ call[t].existed
    /\ call[t].pc \in {"ensureIdDir", "ensureContentDir",
                       "writeMetadata", "writeContent"}
    /\ call'[t].pc \in {"ensureContentDir", "writeMetadata",
                        "writeContent", "done"}
    /\ call'[t].pc # call[t].pc

\* the attached files of id and their bytes are the same in f and g
SameAttached(f, g, id) ==
    /\ AttachedFiles(f, id) = AttachedFiles(g, id)
    /\ \A p \in AttachedFiles(f, id) :
           Read(f, Attached(id, p)) = Read(g, Attached(id, p))

\* C20: a createContent with a supplied id of an existing record that succeeds
\* has replaced h5p.json and content/content.json with the new documents when
\* it returns, and none of its steps adds, removes or changes an attached
\* file of the id, so getContentFiles(id) returns what it returned before.
C20_OverwriteKeepsFiles ==
    /\ [](\A t \in Tasks :
            (/\ call[t].op = "createContent" /\ call[t].pc = "done"
             /\ call[t].err = "none" /\ call[t].supplied /\ call[t].existed)
            => /\ Read(fs, normalize(<<>>, contentPath
                      \o <<toString(call[t].id), SegH5pJson>>))
                  = <<"{", call[t].metadata, "}", "\n">>
               /\ Read(fs, normalize(<<>>, contentPath
                      \o <<toString(call[t].id), SegContent, SegContentJson>>))
                  = <<"{", call[t].content, "}", "\n">>)
    /\ [][\A t \in Tasks :
            OverwriteStep(t)
            => /\ SameAttached(fs, fs', call[t].id)
               /\ getContentFilesResult(fs', call[t].id)
                      = getContentFilesResult(fs, call[t].id)]_vars

\* C20 witness: record 1 held the documents m1, c1 and the attached file
\* README; createContent(m2, c2, user, 1) has returned 1, the documents are
\* m2, c2 and README is still there with its bytes.
C20_Witness ==
    \E t \in Tasks :
        /\ call[t].op = "createContent" /\ call[t].pc = "done"
        /\ call[t].err = "none" /\ call[t].supplied /\ call[t].existed
        /\ call[t].id = 1 /\ call[t].metadata = "m2"
        /\ Read(fs, normalize(<<>>, contentPath
               \o <<toString(1), SegH5pJson>>)) = <<"{", "m2", "}", "\n">>
        /\ Read(fs, normalize(<<>>, contentPath
               \o <<toString(1), SegContent, SegContentJson>>))
               = <<"{", "c2", "}", "\n">>
        /\ Read(fs, Attached(1, <<SegReadme>>)) = <<"x">>

=============================================================================
